---- MODULE Spec2Model ----
(***************************************************************************)
(* BubbleAi: the chat turn pipeline.                                       *)
(*   useChat.handleSendMessage  (src/unnamed/part_000)                     *)
(*   runAutonomousAgent         (src/unnamed/part_001)                     *)
(* A text is a sequence of one-character strings; the few fixed texts the  *)
(* code builds from templates are kept as one string per template part.    *)
(***************************************************************************)
EXTENDS Integers, Sequences, FiniteSets, TLC

(* ------------------------------ bounds -------------------------------- *)

\* pieces a raw model response of the stream specification is built from
MaxPieces == 4
\* submissions of handleSendMessage in one behaviour
MaxTurns == 2
\* fragments the model stream of a turn is delivered in
MaxFragments == 1
\* largest credit balance and largest cost-table entry
MaxCredits == 1

(* --------------------------- text helpers ----------------------------- *)

Min(S) == CHOOSE x \in S : \A y \in S : x <= y

\* pat occurs in s at the 0-based index i
StartsAt(s, pat, i) ==
    /\ i >= 0
    /\ i + Len(pat) <= Len(s)
    /\ \A k \in 1..Len(pat) : s[i + k] = pat[k]

\* String.prototype.indexOf(pat, from): 0-based, -1 when absent
IndexOfFrom(s, pat, from) ==
    IF \E i \in from..(Len(s) - Len(pat)) : StartsAt(s, pat, i)
    THEN CHOOSE i \in from..(Len(s) - Len(pat)) :
            /\ StartsAt(s, pat, i)
            /\ \A j \in from..(i - 1) : ~StartsAt(s, pat, j)
    ELSE -1

IndexOf(s, pat) == IndexOfFrom(s, pat, 0)

\* String.prototype.substring(a, b) and substring(a)
Substring(s, a, b) == SubSeq(s, a + 1, b)

SubstringFrom(s, a) == SubSeq(s, a + 1, Len(s))

WhiteSpace == {" ", "\n", "\t"}

\* a trim() that strips nothing
TrimNothing(s) == s

\* String.prototype.trim()
Trim(s) ==
    LET keep == {i \in 1..Len(s) : s[i] \notin WhiteSpace}
    IN IF keep = {} THEN <<>>
       ELSE SubSeq(s, Min(keep), CHOOSE i \in keep : \A j \in keep : j <= i)

(* ----------------------- the wire format ------------------------------ *)

Sentinel == <<"[", "-", "-", "M", "E", "T", "A", "D", "A", "T", "A", "-", "-", "]">>

DocEmpty == <<"{", "}">>
DocCode == <<"{", "\"", "c", "o", "d", "e", "\"", ":", "\"", "x", "\"", "}">>
DocBlank == <<"{", "\"", "c", "o", "d", "e", "\"", ":", "\"", " ", "\"", "}">>
DocImage == <<"{", "\"", "i", "m", "a", "g", "e", "P", "r", "o", "m", "p", "t", "\"", ":", "\"", "p", "\"", "}">>
DocBoth == <<"{", "\"", "c", "o", "d", "e", "\"", ":", "\"", "x", "\"", ",", "\"", "i", "m", "a", "g", "e", "P", "r", "o", "m", "p", "t", "\"", ":", "\"", "p", "\"", "}">>
DocMem == <<"{", "\"", "m", "e", "m", "o", "r", "y", "T", "o", "C", "r", "e", "a", "t", "e", "\"", ":", "[", "{", "\"", "k", "e", "y", "\"", ":", "\"", "k", "\"", "}", "]", "}">>
DocCodeLang == <<"{", "\"", "c", "o", "d", "e", "\"", ":", "\"", "x", "\"", ",", "\"", "l", "a", "n", "g", "u", "a", "g", "e", "\"", ":", "\"", "t", "s", "\"", "}">>
DocCodeMem == <<"{", "\"", "c", "o", "d", "e", "\"", ":", "\"", "x", "\"", ",", "\"", "m", "e", "m", "o", "r", "y", "T", "o", "C", "r", "e", "a", "t", "e", "\"", ":", "[", "{", "\"", "k", "e", "y", "\"", ":", "\"", "k", "\"", "}", "]", "}">>
DocImageMem == <<"{", "\"", "i", "m", "a", "g", "e", "P", "r", "o", "m", "p", "t", "\"", ":", "\"", "p", "\"", ",", "\"", "m", "e", "m", "o", "r", "y", "T", "o", "C", "r", "e", "a", "t", "e", "\"", ":", "[", "{", "\"", "k", "e", "y", "\"", ":", "\"", "k", "\"", "}", ",", "{", "\"", "k", "e", "y", "\"", ":", "\"", "l", "\"", "}", "]", "}">>
\* an opening brace alone: not structured data
DocBad == <<"{">>

\* JSON.parse on the documents the responses of this model can carry: the
\* fields the document sets, or a SyntaxError (ok = FALSE). Every other text
\* that Pieces and Responses can put between two sentinels is not JSON text.
JSONParse(s) ==
    CASE s = DocEmpty -> [ok |-> TRUE, value |-> <<>>]
      [] s = DocCode  -> [ok |-> TRUE, value |-> [code |-> <<"x">>]]
      [] s = DocBlank -> [ok |-> TRUE, value |-> [code |-> <<" ">>]]
      [] s = DocImage -> [ok |-> TRUE, value |-> [imagePrompt |-> <<"p">>]]
      [] s = DocBoth  -> [ok |-> TRUE, value |-> [code |-> <<"x">>, imagePrompt |-> <<"p">>]]
      [] s = DocMem   -> [ok |-> TRUE, value |-> [memoryToCreate |-> <<"k">>]]
      [] s = DocCodeLang -> [ok |-> TRUE, value |-> [code |-> <<"x">>, language |-> <<"ts">>]]
      [] s = DocCodeMem  -> [ok |-> TRUE, value |-> [code |-> <<"x">>, memoryToCreate |-> <<"k">>]]
      [] s = DocImageMem -> [ok |-> TRUE, value |-> [imagePrompt |-> <<"p">>,
                                                     memoryToCreate |-> <<"k", "l">>]]
      [] OTHER        -> [ok |-> FALSE, value |-> <<>>]

\* { ...a, ...b }
Spread(a, b) ==
    [k \in (DOMAIN a) \cup (DOMAIN b) |-> IF k \in DOMAIN b THEN b[k] ELSE a[k]]

(* ----------------- runAutonomousAgent: the stream loop ---------------- *)

\* One iteration of the for-await loop on a non-empty chunkText: the new
\* fullText and streamingBuffer, and the text handed to onStreamChunk
\* (<<>> when onStreamChunk is not called).
StreamStepAt(full, metaStartIndex, streamingBuffer, chunkText) ==
    IF metaStartIndex # -1
    THEN LET visibleText == Substring(full, 0, metaStartIndex)
         IN IF Len(visibleText) > Len(streamingBuffer)
            THEN [fullText |-> full,
                  streamingBuffer |-> visibleText,
                  sent |-> SubstringFrom(visibleText, Len(streamingBuffer))]
            ELSE [fullText |-> full,
                  streamingBuffer |-> streamingBuffer,
                  sent |-> <<>>]
    ELSE [fullText |-> full,
          streamingBuffer |-> streamingBuffer \o chunkText,
          sent |-> chunkText]

\* fullText += chunkText; metaStartIndex = fullText.indexOf('[--METADATA--]')
StreamStepOn(full, streamingBuffer, chunkText) ==
    StreamStepAt(full, IndexOf(full, Sentinel), streamingBuffer, chunkText)

StreamStep(fullText, streamingBuffer, chunkText) ==
    StreamStepOn(fullText \o chunkText, streamingBuffer, chunkText)

(* --------------- runAutonomousAgent: after the stream ----------------- *)

\* fullText.match(metadataRegex): the first sentinel and the nearest sentinel
\* after it (the group is lazy); found = FALSE when there is no such pair.
MetadataMatch(fullText) ==
    LET i == IndexOf(fullText, Sentinel)
        j == IF i = -1 THEN -1 ELSE IndexOfFrom(fullText, Sentinel, i + Len(Sentinel))
    IN IF j = -1
       THEN [found |-> FALSE, start |-> -1, stop |-> -1, group |-> <<>>]
       ELSE [found |-> TRUE, start |-> i, stop |-> j + Len(Sentinel),
             group |-> Substring(fullText, i + Len(Sentinel), j)]

\* the visible text without the replace(): the metadata block stays in it
UserVisibleTextKeepsBlock(fullText) == Trim(fullText)

\* the visible text without the trim()
UserVisibleTextUntrimmed(fullText) ==
    LET m == MetadataMatch(fullText)
    IN IF m.found
       THEN Substring(fullText, 0, m.start) \o SubstringFrom(fullText, m.stop)
       ELSE fullText

\* (metadataMatch ? fullText.replace(metadataRegex, '') : fullText).trim()
UserVisibleText(fullText) ==
    LET m == MetadataMatch(fullText)
    IN Trim(IF m.found
            THEN Substring(fullText, 0, m.start) \o SubstringFrom(fullText, m.stop)
            ELSE fullText)

NoMetadata ==
    [imagePrompt |-> <<>>, code |-> <<>>, language |-> <<>>, memoryToCreate |-> <<>>]

\* parsedMetadata after the try/catch around JSON.parse; a null or missing
\* field and an empty one are both <<>> (the code only tests truthiness)
ParsedMetadata(fullText) ==
    LET m == MetadataMatch(fullText)
    IN IF m.found /\ m.group # <<>>
       THEN LET p == JSONParse(Trim(m.group))
            IN IF p.ok THEN Spread(NoMetadata, p.value) ELSE NoMetadata
       ELSE NoMetadata

(* ------------------------------ state --------------------------------- *)

VARIABLES
    \* useChat state (part_000:58-62)
    messages, isLoading, toasts,
    \* the backend: persisted messages and the user's credit balance
    db, credits,
    \* handleSendMessage, one call: position, Date.now() of the call, inputs,
    \* locals, and what the call returned
    turnPc, turns, now, workspaceMode, profileRole, closureMessages,
    userMessageData, savedUserMessage, historyForAgent, agentMessages,
    savedAiMessages, updatedPlan, outcome, failed, extractCalls,
    \* runAutonomousAgent, one call: position and locals
    agentPc, raw, pos, fragmentsLeft, fullText, streamingBuffer, emitted,
    latestProfile, cost, calls, memorySaves,
    \* the fire-and-forget promises of the turn: which have settled, and what
    \* their catch handlers wrote to the console
    background,
    \* runAutonomousAgent: the cost-table entry read from app_settings
    settings,
    \* useChat: the active conversation, and the fetchMessages call in flight
    activeChat, fetchMessages,
    \* the image stages of turns of one user that run at the same time
    overlap

hookVars == <<messages, isLoading, toasts>>
backendVars == <<db, credits>>
turnVars == <<turnPc, turns, now, workspaceMode, profileRole, closureMessages,
              userMessageData, savedUserMessage, historyForAgent, agentMessages,
              savedAiMessages, updatedPlan, outcome, failed, extractCalls>>
streamVars == <<raw, pos, fragmentsLeft, fullText, streamingBuffer, emitted>>
agentVars == <<agentPc, raw, pos, fragmentsLeft, fullText, streamingBuffer, emitted,
               latestProfile, cost, calls, memorySaves>>
chatVars == <<activeChat, fetchMessages>>
vars == <<hookVars, backendVars, turnVars, agentVars, background, settings, chatVars,
          overlap>>

(* ----------------------------- messages ------------------------------- *)

ChatId == "chat-1"

\* the conversations of the chat list
Chats == {ChatId, "chat-2"}

\* a cost-table entry; Absent when app_settings has no such column value
Absent == -1

\* no fetchMessages call is in flight
NoFetch == [pc |-> "none", chat |-> ChatId, ok |-> TRUE, history |-> <<>>]

\* the turns that may run at the same time
ConcurrentTurns == {1, 2}

NoOverlap ==
    [entry |-> Absent, initial |-> 0,
     turn |-> [t \in ConcurrentTurns |-> [pc |-> "idle", credits |-> 0, cost |-> 0]]]

\* a Message / an AgentOutput entry; an absent optional field is <<>> or "none"
Message(id, sender, text) ==
    [id |-> id, chat_id |-> ChatId, sender |-> sender, text |-> text,
     code |-> <<>>, language |-> <<>>, imageStatus |-> "none",
     image_base64 |-> "none", raw_ai_response |-> <<>>, plan |-> "none"]

Draft(text) == Message(<<"draft", 0>>, "ai", text)

NoMessage == Message(<<"none", 0>>, "none", <<>>)

NoPlan == [messageId |-> <<"none", 0>>, plan |-> "none"]

tempUserMessageId == <<"temp-user", now>>
tempAiMessageId == <<"temp-ai", now>>

IsTempId(id) == id[1] \in {"temp-user", "temp-ai"}

\* prev.map(m => cond(m) ? f(m) : m), prev.filter(...)
\* the swap done as remove and append
ReplaceIdByAppend(view, id, m) ==
    SelectSeq(view, LAMBDA x : x.id # id) \o <<m>>

ReplaceId(view, id, m) == [i \in DOMAIN view |-> IF view[i].id = id THEN m ELSE view[i]]

RECURSIVE WithoutIds(_, _)
WithoutIds(view, ids) ==
    IF view = <<>> THEN <<>>
    ELSE IF Head(view).id \in ids THEN WithoutIds(Tail(view), ids)
         ELSE <<Head(view)>> \o WithoutIds(Tail(view), ids)

(* ------------------- handleSendMessage: onStreamChunk ----------------- *)

EventOpen == <<"{", "\"", "t", "y", "p", "e", "\"", ":", "\"", "i", "m", "a", "g", "e", "_", "g", "e", "n", "e", "r", "a", "t", "i", "o", "n", "_", "s", "t", "a", "r", "t", "\"", ",", "\"", "t", "e", "x", "t", "\"", ":", "\"">>
EventClose == <<"\"", "}">>

\* JSON.stringify({ type: 'image_generation_start', text })
EventChunk(text) == EventOpen \o text \o EventClose

\* JSON.parse(chunk) and the test event.type === 'image_generation_start'
ParseEvent(chunk) ==
    IF /\ Len(chunk) >= Len(EventOpen) + Len(EventClose)
       /\ StartsAt(chunk, EventOpen, 0)
       /\ StartsAt(chunk, EventClose, Len(chunk) - Len(EventClose))
    THEN [isEvent |-> TRUE,
          text |-> Substring(chunk, Len(EventOpen), Len(chunk) - Len(EventClose))]
    ELSE [isEvent |-> FALSE, text |-> <<>>]

\* a handler that takes every chunk for text
OnStreamChunkAppendsAll(view, chunk) ==
    [i \in DOMAIN view |->
        IF view[i].id # tempAiMessageId THEN view[i]
        ELSE [view[i] EXCEPT !.text = view[i].text \o chunk]]

\* the view after onStreamChunk(chunk)
OnStreamChunk(view, chunk) ==
    LET event == ParseEvent(chunk)
    IN [i \in DOMAIN view |->
          IF view[i].id # tempAiMessageId THEN view[i]
          ELSE IF event.isEvent
               THEN [view[i] EXCEPT !.text = event.text, !.imageStatus = "generating"]
               ELSE [view[i] EXCEPT !.text = view[i].text \o chunk]]

(* ------------------- handleSendMessage: the two exits ----------------- *)

\* the final updater without its filter: the AI placeholder stays
FinalViewKeepsPlaceholder(prev, saved, plan) == prev \o saved

\* the final updater without its push: the persisted AI messages are not shown
FinalViewDropsSaved(prev, saved, plan) == WithoutIds(prev, {tempAiMessageId})

\* the final setMessages updater (part_000:226-236)
FinalView(prev, saved, plan) ==
    LET finalMessages == WithoutIds(prev, {tempAiMessageId}) \o saved
    IN IF plan # NoPlan
       THEN [i \in DOMAIN finalMessages |->
               IF finalMessages[i].id = plan.messageId
               THEN [finalMessages[i] EXCEPT !.plan = plan.plan]
               ELSE finalMessages[i]]
       ELSE finalMessages

\* a clean-up that forgets the temporary user message
CleanedViewKeepsUser(prev) == WithoutIds(prev, {tempAiMessageId})

\* the view after the catch block's clean-up (part_000:246)
CleanedView(prev) == WithoutIds(prev, {tempUserMessageId, tempAiMessageId})

\* the catch block without the finally block: the loading flag stays set
ErrorPathSkipsFinally(stage, errorMessage) ==
    /\ toasts' = Append(toasts, errorMessage)
    /\ messages' = CleanedView(messages)
    /\ isLoading' = isLoading
    /\ turnPc' = "Idle"
    /\ outcome' = "error"
    /\ failed' = failed \cup {stage}

\* catch and finally: toast, clean-up, return { messages: [] }
ErrorPath(stage, errorMessage) ==
    /\ toasts' = Append(toasts, errorMessage)
    /\ messages' = CleanedView(messages)
    /\ isLoading' = FALSE
    /\ turnPc' = "Idle"
    /\ outcome' = "error"
    /\ failed' = failed \cup {stage}

\* from the end of the persistence loop to the next await or the return
FinishTurn(prev, saved, plan) ==
    /\ extractCalls' = IF savedUserMessage # NoMessage /\ Len(saved) > 0
                       THEN extractCalls + 1 ELSE extractCalls
    /\ messages' = FinalView(prev, saved, plan)
    /\ IF plan # NoPlan
       THEN turnPc' = "PlanPersist" /\ UNCHANGED <<isLoading, outcome>>
       ELSE turnPc' = "Idle" /\ isLoading' = FALSE /\ outcome' = "ok"

(* ------------------- the fire-and-forget promises --------------------- *)

NoBackground == [memorySettled |-> FALSE, extractSettled |-> FALSE, warnings |-> {}]

MemoryWarning == "Autonomous agent failed to save memory:"

ExtractWarning == "Background memory extraction failed:"

\* a handler that surfaces the failure to the user
MemorySettledToasts(ok) ==
    /\ background' = [background EXCEPT !.memorySettled = TRUE]
    /\ toasts' = IF ok THEN toasts ELSE Append(toasts, MemoryWarning)
    /\ UNCHANGED <<messages, isLoading>>

\* part_001:107-109: Promise.all(saveMemory ...) settled; .catch warns
MemorySettled(ok) ==
    /\ background' = [background EXCEPT
                         !.memorySettled = TRUE,
                         !.warnings = IF ok THEN @ ELSE @ \cup {MemoryWarning}]
    /\ UNCHANGED hookVars

\* a handler that surfaces the failure to the user
ExtractSettledToasts(ok) ==
    /\ background' = [background EXCEPT !.extractSettled = TRUE]
    /\ toasts' = IF ok THEN toasts ELSE Append(toasts, ExtractWarning)
    /\ UNCHANGED <<messages, isLoading>>

\* part_000:222-223: extractAndSaveMemory settled; .catch warns
ExtractSettled(ok) ==
    /\ background' = [background EXCEPT
                         !.extractSettled = TRUE,
                         !.warnings = IF ok THEN @ ELSE @ \cup {ExtractWarning}]
    /\ UNCHANGED hookVars

\* the saveMemory batch of the turn resolves or rejects
MemorySettle ==
    /\ memorySaves > 0 /\ ~background.memorySettled
    /\ \E ok \in BOOLEAN : MemorySettled(ok)
    /\ UNCHANGED <<backendVars, turnVars, agentVars, settings, chatVars, overlap>>

\* the extractAndSaveMemory call of the turn resolves or rejects
ExtractSettle ==
    /\ extractCalls > 0 /\ ~background.extractSettled
    /\ \E ok \in BOOLEAN : ExtractSettled(ok)
    /\ UNCHANGED <<backendVars, turnVars, agentVars, settings, chatVars, overlap>>

(* ---------------------- handleSendMessage: steps ----------------------- *)

UserTexts == {<<"h", "i">>, <<" ">>}

AgentIdle ==
    /\ agentPc' = "idle" /\ raw' = <<>> /\ pos' = 0 /\ fragmentsLeft' = 0
    /\ fullText' = <<>>
    /\ streamingBuffer' = <<>> /\ emitted' = <<>>
    /\ latestProfile' = [credits |-> 0, membership |-> "none"]
    /\ cost' = 0 /\ calls' = <<>> /\ memorySaves' = 0

\* part_000:147: nothing to send
SubmitIgnored ==
    /\ turnPc = "Idle"
    /\ \E text \in UserTexts :
         /\ Trim(text) = <<>>
         /\ outcome' = "ignored"
    /\ UNCHANGED <<hookVars, backendVars, agentVars, turnPc, turns, now, workspaceMode,
                   profileRole, closureMessages, userMessageData, savedUserMessage,
                   historyForAgent, agentMessages, savedAiMessages, updatedPlan,
                   failed, extractCalls>>
    /\ UNCHANGED <<background, settings, chatVars, overlap>>

\* part_000:161-172: an attached file cannot be read
SubmitUnreadable ==
    /\ turnPc = "Idle"
    /\ outcome' = "ignored"
    /\ toasts' = <<"Failed to read the attached file(s).">>
    /\ UNCHANGED <<messages, isLoading, backendVars, agentVars, turnPc, turns, now,
                   workspaceMode, profileRole, closureMessages, userMessageData,
                   savedUserMessage, historyForAgent, agentMessages,
                   savedAiMessages, updatedPlan, failed, extractCalls>>
    /\ UNCHANGED <<background, settings, chatVars, overlap>>

\* part_000:147-183: the placeholders are shown and addMessage is called
Submit ==
    /\ turnPc = "Idle" /\ turns < MaxTurns
    \* chatToUse is the active conversation (the default argument)
    /\ activeChat = ChatId
    /\ \E text \in UserTexts :
         /\ Trim(text) # <<>>
         /\ userMessageData' = Message(<<"draft", 0>>, "user", text)
         /\ messages' = messages \o
               << Message(<<"temp-user", now + 1>>, "user", text),
                  Message(<<"temp-ai", now + 1>>, "ai", <<>>) >>
    /\ turns' = turns + 1
    /\ now' = now + 1
    /\ closureMessages' = messages
    /\ isLoading' = TRUE
    /\ turnPc' = "Persisting"
    /\ savedUserMessage' = NoMessage
    /\ historyForAgent' = <<>>
    /\ agentMessages' = <<>>
    /\ savedAiMessages' = <<>>
    /\ updatedPlan' = NoPlan
    /\ outcome' = "none"
    /\ failed' = {}
    /\ extractCalls' = 0
    /\ toasts' = <<>>
    /\ AgentIdle
    /\ UNCHANGED <<backendVars, workspaceMode, profileRole>>
    /\ background' = NoBackground
    /\ settings' = Absent
    /\ UNCHANGED <<chatVars, overlap>>

\* part_000:183-211: addMessage resolved; identity swap; runAgent is called
PersistUserOk ==
    /\ turnPc = "Persisting"
    /\ LET saved == [userMessageData EXCEPT !.id = <<"msg", Len(db) + 1>>]
       IN /\ db' = Append(db, saved)
          /\ savedUserMessage' = saved
          /\ messages' = ReplaceId(messages, tempUserMessageId, saved)
          /\ historyForAgent' =
                Append(WithoutIds(closureMessages,
                                  {tempUserMessageId, tempAiMessageId}), saved)
    /\ turnPc' = "Streaming"
    /\ agentPc' = IF workspaceMode = "autonomous" THEN "callStream" ELSE "other"
    /\ UNCHANGED <<isLoading, toasts, credits, turns, now, workspaceMode,
                   profileRole, closureMessages, userMessageData, agentMessages,
                   savedAiMessages, updatedPlan, outcome, failed, extractCalls,
                   streamVars, latestProfile, cost, calls, memorySaves>>
    /\ UNCHANGED <<background, settings, chatVars, overlap>>

PersistUserFail ==
    /\ turnPc = "Persisting"
    /\ ErrorPath("persistUser", "addMessage(user) rejected")
    /\ UNCHANGED <<backendVars, agentVars, turns, now, workspaceMode, profileRole,
                   closureMessages, userMessageData, savedUserMessage,
                   historyForAgent, agentMessages, savedAiMessages, updatedPlan,
                   extractCalls>>
    /\ UNCHANGED <<background, settings, chatVars, overlap>>

\* part_000:216-239: one addMessage of the loop resolved
PersistAiOk ==
    /\ turnPc = "Finalizing"
    /\ LET saved == [agentMessages[Len(savedAiMessages) + 1]
                       EXCEPT !.id = <<"msg", Len(db) + 1>>]
           all == Append(savedAiMessages, saved)
       IN /\ db' = Append(db, saved)
          /\ savedAiMessages' = all
          /\ IF Len(all) = Len(agentMessages)
             THEN FinishTurn(messages, all, updatedPlan)
             ELSE UNCHANGED <<extractCalls, messages, turnPc, isLoading, outcome>>
    /\ UNCHANGED <<toasts, credits, agentVars, turns, now, workspaceMode,
                   profileRole, closureMessages, userMessageData, savedUserMessage,
                   historyForAgent, agentMessages, updatedPlan, failed>>
    /\ UNCHANGED <<background, settings, chatVars, overlap>>

PersistAiFail ==
    /\ turnPc = "Finalizing"
    /\ ErrorPath("persistAi", "addMessage(ai) rejected")
    /\ UNCHANGED <<backendVars, agentVars, turns, now, workspaceMode, profileRole,
                   closureMessages, userMessageData, savedUserMessage,
                   historyForAgent, agentMessages, savedAiMessages, updatedPlan,
                   extractCalls>>
    /\ UNCHANGED <<background, settings, chatVars, overlap>>

\* part_000:238-239: updateMessagePlan resolved
PlanOk ==
    /\ turnPc = "PlanPersist"
    /\ turnPc' = "Idle"
    /\ isLoading' = FALSE
    /\ outcome' = "ok"
    /\ UNCHANGED <<messages, toasts, backendVars, agentVars, turns, now,
                   workspaceMode, profileRole, closureMessages, userMessageData,
                   savedUserMessage, historyForAgent, agentMessages,
                   savedAiMessages, updatedPlan, failed, extractCalls>>
    /\ UNCHANGED <<background, settings, chatVars, overlap>>

PlanFail ==
    /\ turnPc = "PlanPersist"
    /\ ErrorPath("plan", "updateMessagePlan rejected")
    /\ UNCHANGED <<backendVars, agentVars, turns, now, workspaceMode, profileRole,
                   closureMessages, userMessageData, savedUserMessage,
                   historyForAgent, agentMessages, savedAiMessages, updatedPlan,
                   extractCalls>>
    /\ UNCHANGED <<background, settings, chatVars, overlap>>

(* ------------- runAgent for the other workspace modes ------------------ *)

PersistedIds(view) == {view[i].id : i \in {j \in DOMAIN view : ~IsTempId(view[j].id)}}

\* an agent other than the autonomous one resolves with an AgentExecutionResult
OtherAgentResolve ==
    /\ turnPc = "Streaming" /\ agentPc = "other"
    /\ \E n \in 0..2, plan \in {NoPlan} \cup
                 {[messageId |-> id, plan |-> "plan"] : id \in PersistedIds(messages)} :
         LET msgs == [i \in 1..n |-> Draft(<<"o", ToString(i)>>)]
         IN /\ agentMessages' = msgs
            /\ updatedPlan' = plan
            /\ IF n = 0
               THEN FinishTurn(messages, <<>>, plan)
               ELSE /\ turnPc' = "Finalizing"
                    /\ UNCHANGED <<extractCalls, messages, isLoading, outcome>>
    /\ agentPc' = "returned"
    /\ UNCHANGED <<toasts, backendVars, turns, now, workspaceMode, profileRole,
                   closureMessages, userMessageData, savedUserMessage,
                   historyForAgent, savedAiMessages, failed,
                   streamVars, latestProfile, cost, calls, memorySaves>>
    /\ UNCHANGED <<background, settings, chatVars, overlap>>

OtherAgentReject ==
    /\ turnPc = "Streaming" /\ agentPc = "other"
    /\ ErrorPath("agent", "runAgent rejected")
    /\ agentPc' = "returned"
    /\ UNCHANGED <<backendVars, turns, now, workspaceMode, profileRole,
                   closureMessages, userMessageData, savedUserMessage,
                   historyForAgent, agentMessages, savedAiMessages, updatedPlan,
                   extractCalls, streamVars, latestProfile, cost, calls, memorySaves>>
    /\ UNCHANGED <<background, settings, chatVars, overlap>>

(* ---------------------- runAutonomousAgent: steps ---------------------- *)

\* history.map(...).filter(...): one entry per message whose text is not blank
\* (part_001:29-32)
GeminiHistory(history) ==
    LET entries == [i \in DOMAIN history |->
                       [role |-> IF history[i].sender = "user" THEN "user" ELSE "model",
                        text |-> history[i].text]]
    IN SelectSeq(entries, LAMBDA e : Trim(e.text) # <<>>)

\* contents = [...geminiHistory, { role: 'user', parts: [{ text: prompt }] }]
\* (part_001:36-44)
Contents(history, prompt) ==
    GeminiHistory(history) \o <<[role |-> "user", text |-> prompt]>>


\* the raw responses the model may stream in a turn
Responses ==
    { <<"H", "i">>,
      <<" ">>,
      <<"H", "i", " ">> \o Sentinel \o DocCode \o Sentinel,
      <<"H", "i">> \o Sentinel \o DocImage \o Sentinel,
      <<"H", "i">> \o Sentinel \o DocBad \o Sentinel }

\* getUserFriendlyError(error)
GetUserFriendlyError(error) == <<"friendly:", error>>

\* the audit field attached for every requester
WithRawForAll(m) == [m EXCEPT !.raw_ai_response = fullText]

WithRaw(m) ==
    IF profileRole = "admin" THEN [m EXCEPT !.raw_ai_response = fullText] ELSE m

\* return { messages: [messagePayload] } to handleSendMessage, which goes on to
\* its persistence loop (part_000:213-217)
Return(messagePayload) ==
    /\ agentPc' = "returned"
    /\ agentMessages' = <<messagePayload>>
    /\ updatedPlan' = NoPlan
    /\ turnPc' = "Finalizing"

\* a catch block that shows the raw error
FallbackRaw(error) ==
    /\ Return(Draft(<<error>>))
    /\ failed' = failed \cup {error}

\* the catch block (part_001:174-184)
Fallback(error) ==
    /\ Return(Draft(<<"An error occurred: ">> \o GetUserFriendlyError(error)))
    /\ failed' = failed \cup {error}

\* part_001:46: generateContentStream resolved with a stream
AgentStreamOpen ==
    /\ turnPc = "Streaming" /\ agentPc = "callStream"
    /\ \E r \in Responses : raw' = r
    /\ fragmentsLeft' = MaxFragments
    /\ agentPc' = "streaming"
    /\ UNCHANGED <<hookVars, backendVars, turnVars, pos, fullText, streamingBuffer,
                   emitted, latestProfile, cost, calls, memorySaves>>
    /\ UNCHANGED <<background, settings, chatVars, overlap>>

\* part_001:46,59: generateContentStream or the stream's next chunk rejected
AgentStreamReject ==
    /\ turnPc = "Streaming" /\ agentPc \in {"callStream", "streaming"}
    /\ Fallback("stream")
    /\ UNCHANGED <<hookVars, backendVars, turns, now, workspaceMode, profileRole,
                   closureMessages, userMessageData, savedUserMessage,
                   historyForAgent, savedAiMessages, outcome, extractCalls,
                   streamVars, latestProfile, cost, calls, memorySaves>>
    /\ UNCHANGED <<background, settings, chatVars, overlap>>

\* part_001:59-79: the stream delivers its next fragment; fragmentsLeft is the
\* number of fragments the stream may still be cut into, 0 when it is not limited
AgentStreamChunk ==
    /\ turnPc = "Streaming" /\ agentPc = "streaming"
    /\ pos < Len(raw)
    /\ \E n \in 1..(Len(raw) - pos) :
         /\ fragmentsLeft # 1 \/ n = Len(raw) - pos
         /\ fragmentsLeft' = IF fragmentsLeft = 0 THEN 0 ELSE fragmentsLeft - 1
         /\ \E step \in {StreamStep(fullText, streamingBuffer,
                                      SubSeq(raw, pos + 1, pos + n))} :
            /\ pos' = pos + n
            /\ fullText' = step.fullText
            /\ streamingBuffer' = step.streamingBuffer
            /\ emitted' = emitted \o step.sent
            /\ messages' = IF step.sent = <<>> THEN messages
                           ELSE OnStreamChunk(messages, step.sent)
    /\ UNCHANGED <<isLoading, toasts, backendVars, turnVars, agentPc, raw,
                   latestProfile, cost, calls, memorySaves>>
    /\ UNCHANGED <<background, settings, chatVars, overlap>>

Truthy(text) == Trim(text) # <<>>

\* the dispatch with its first two cases in the other order: an image prompt
\* wins over a code body
AgentStreamEndImageFirst ==
    /\ turnPc = "Streaming" /\ agentPc = "streaming"
    /\ pos = Len(raw)
    /\ LET userVisibleText == UserVisibleText(fullText)
           parsedMetadata == ParsedMetadata(fullText)
       IN /\ memorySaves' = memorySaves + Len(parsedMetadata.memoryToCreate)
          /\ IF Truthy(parsedMetadata.imagePrompt)
             THEN /\ messages' = OnStreamChunk(messages, EventChunk(userVisibleText))
                  /\ agentPc' = "fetchProfile"
                  /\ UNCHANGED <<agentMessages, updatedPlan, turnPc, failed>>
             ELSE IF Truthy(parsedMetadata.code)
             THEN /\ Return(WithRaw([Draft(userVisibleText) EXCEPT
                        !.code = Trim(parsedMetadata.code),
                        !.language = IF parsedMetadata.language # <<>>
                                     THEN parsedMetadata.language
                                     ELSE <<"plaintext">>]))
                  /\ UNCHANGED <<messages, failed>>
             ELSE IF userVisibleText # <<>>
             THEN /\ Return(WithRaw(Draft(userVisibleText)))
                  /\ UNCHANGED <<messages, failed>>
             ELSE /\ Fallback("The AI returned an empty response.")
                  /\ UNCHANGED messages
    /\ pos' = 0 /\ fragmentsLeft' = 0 /\ streamingBuffer' = <<>> /\ emitted' = <<>>
    /\ UNCHANGED <<isLoading, toasts, backendVars, turns, now, workspaceMode,
                   profileRole, closureMessages, userMessageData, savedUserMessage,
                   historyForAgent, savedAiMessages, outcome, extractCalls,
                   raw, fullText, latestProfile, cost, calls, background>>
    /\ UNCHANGED <<settings, chatVars, overlap>>

\* part_001:83-172: the stream ended; the metadata is resolved and dispatched
\* (the loop's locals streamingBuffer and the fragment position are dead from here)
AgentStreamEnd ==
    /\ turnPc = "Streaming" /\ agentPc = "streaming"
    /\ pos = Len(raw)
    /\ LET userVisibleText == UserVisibleText(fullText)
           parsedMetadata == ParsedMetadata(fullText)
       IN /\ memorySaves' = memorySaves + Len(parsedMetadata.memoryToCreate)
          /\ IF Truthy(parsedMetadata.code)
             THEN /\ Return(WithRaw([Draft(userVisibleText) EXCEPT
                        !.code = Trim(parsedMetadata.code),
                        !.language = IF parsedMetadata.language # <<>>
                                     THEN parsedMetadata.language
                                     ELSE <<"plaintext">>]))
                  /\ UNCHANGED <<messages, failed>>
             ELSE IF Truthy(parsedMetadata.imagePrompt)
             THEN /\ messages' = OnStreamChunk(messages, EventChunk(userVisibleText))
                  /\ agentPc' = "fetchProfile"
                  /\ UNCHANGED <<agentMessages, updatedPlan, turnPc, failed>>
             ELSE IF userVisibleText # <<>>
             THEN /\ Return(WithRaw(Draft(userVisibleText)))
                  /\ UNCHANGED <<messages, failed>>
             ELSE /\ Fallback("The AI returned an empty response.")
                  /\ UNCHANGED messages
    /\ pos' = 0 /\ fragmentsLeft' = 0 /\ streamingBuffer' = <<>> /\ emitted' = <<>>
    /\ UNCHANGED <<isLoading, toasts, backendVars, turns, now, workspaceMode,
                   profileRole, closureMessages, userMessageData, savedUserMessage,
                   historyForAgent, savedAiMessages, outcome, extractCalls,
                   raw, fullText, latestProfile, cost, calls>>
    /\ UNCHANGED <<background, settings, chatVars, overlap>>

(* ------------- runAutonomousAgent: the image branch -------------------- *)

\* settings[`cost_image_${modelToUse}`] || 1
CostOf(entry) == IF entry = Absent \/ entry = 0 THEN 1 ELSE entry

\* the notice with its two numbers swapped
ShortfallNoticeSwapped(need, have) ==
    <<"Oops! You need ", ToString(have),
      " credits to generate an image, but you only have ", ToString(need), ".">>

\* part_001:144
ShortfallNotice(need, have) ==
    <<"Oops! You need ", ToString(need),
      " credits to generate an image, but you only have ", ToString(have), ".">>

\* no disclosure of the fallback
FallbackNoteOmitted == <<>>

FallbackNote ==
    <<"\n\n*(Note: The premium image model failed, so I used a faster fallback to generate this image.)*">>

\* the deduct_credits procedure of the backend
DeductCredits(balance, amount) == balance - amount

\* deduct_credits called and not awaited: generateImage is called at once
CallDeductNoAwait ==
    /\ calls' = calls \o <<"deduct_credits:call", "generateImage:call">>
    /\ agentPc' = "generateImage"

\* part_001:146: await supabase.rpc('deduct_credits', ...)
CallDeduct ==
    /\ calls' = Append(calls, "deduct_credits:call")
    /\ agentPc' = "deduct"

\* the profile fetch resolved, and an admin is charged like everyone else
AgentProfileChargesAdmin ==
    /\ turnPc = "Streaming" /\ agentPc = "fetchProfile"
    /\ \E ok \in BOOLEAN, membership \in {"free", "admin"} :
         IF ~ok
         THEN /\ Fallback("profile")
              /\ UNCHANGED <<latestProfile, calls>>
         ELSE /\ latestProfile' = [credits |-> credits, membership |-> membership]
              /\ IF FALSE
                 THEN /\ calls' = Append(calls, "generateImage:call")
                      /\ agentPc' = "generateImage"
                 ELSE /\ agentPc' = "fetchSettings"
                      /\ calls' = calls
              /\ UNCHANGED <<agentMessages, updatedPlan, turnPc, failed>>
    /\ UNCHANGED <<hookVars, backendVars, turns, now, workspaceMode, profileRole,
                   closureMessages, userMessageData, savedUserMessage,
                   historyForAgent, savedAiMessages, outcome, extractCalls,
                   streamVars, cost, memorySaves>>
    /\ UNCHANGED <<background, settings, chatVars, overlap>>

\* part_001:132-149: the profile fetch resolved
AgentProfile ==
    /\ turnPc = "Streaming" /\ agentPc = "fetchProfile"
    /\ \E ok \in BOOLEAN, membership \in {"free", "admin"} :
         IF ~ok
         THEN /\ Fallback("profile")
              /\ UNCHANGED <<latestProfile, calls>>
         ELSE /\ latestProfile' = [credits |-> credits, membership |-> membership]
              /\ IF membership = "admin"
                 THEN /\ calls' = Append(calls, "generateImage:call")
                      /\ agentPc' = "generateImage"
                 ELSE /\ agentPc' = "fetchSettings"
                      /\ calls' = calls
              /\ UNCHANGED <<agentMessages, updatedPlan, turnPc, failed>>
    /\ UNCHANGED <<hookVars, backendVars, turns, now, workspaceMode, profileRole,
                   closureMessages, userMessageData, savedUserMessage,
                   historyForAgent, savedAiMessages, outcome, extractCalls,
                   streamVars, cost, memorySaves>>
    /\ UNCHANGED <<background, settings, chatVars, overlap>>

\* part_001:139-146: the app_settings fetch resolved
AgentSettings ==
    /\ turnPc = "Streaming" /\ agentPc = "fetchSettings"
    /\ \E ok \in BOOLEAN, entry \in {Absent} \cup (0..MaxCredits) :
         IF ~ok
         THEN /\ Fallback("settings")
              /\ UNCHANGED <<cost, calls, settings>>
         ELSE /\ settings' = entry
              /\ cost' = CostOf(entry)
              /\ IF latestProfile.credits < CostOf(entry)
                 THEN /\ Return(Draft(ShortfallNotice(CostOf(entry), latestProfile.credits)))
                      /\ calls' = calls
                 ELSE /\ CallDeduct
                      /\ UNCHANGED <<agentMessages, updatedPlan, turnPc>>
              /\ failed' = failed
    /\ UNCHANGED <<hookVars, backendVars, turns, now, workspaceMode, profileRole,
                   closureMessages, userMessageData, savedUserMessage,
                   historyForAgent, savedAiMessages, outcome, extractCalls,
                   streamVars, latestProfile, memorySaves>>
    /\ UNCHANGED <<background, chatVars, overlap>>

\* part_001:146-149: the deduct_credits call resolved (its error, if any, is a
\* value the code does not read); generateImage is called
AgentDeduct ==
    /\ turnPc = "Streaming" /\ agentPc = "deduct"
    /\ \E ok \in BOOLEAN :
         /\ credits' = IF ok THEN DeductCredits(credits, cost) ELSE credits
         /\ calls' = calls \o <<IF ok THEN "deduct_credits:ok" ELSE "deduct_credits:error",
                                "generateImage:call">>
    /\ agentPc' = "generateImage"
    /\ UNCHANGED <<hookVars, db, turnVars, streamVars, latestProfile, cost,
                   memorySaves>>
    /\ UNCHANGED <<background, settings, chatVars, overlap>>

\* generateImage settled, and a rejection gives the deducted credits back
AgentImageRefunds ==
    /\ turnPc = "Streaming" /\ agentPc = "generateImage"
    /\ \E result \in {"ok", "fallback", "rejected"} :
         /\ IF result = "rejected"
            THEN Fallback("image") /\ credits' = credits + cost /\ db' = db
            ELSE /\ UNCHANGED backendVars
                 /\ Return(WithRaw([Draft(IF result = "fallback"
                                          THEN UserVisibleText(fullText) \o FallbackNote
                                          ELSE UserVisibleText(fullText))
                                      EXCEPT !.image_base64 = "image",
                                             !.imageStatus = "complete"]))
                 /\ failed' = failed
         \* the settled call, with the fallbackOccurred flag it reported
         /\ calls' = Append(calls, IF result = "fallback"
                                   THEN "generateImage:fallback"
                                   ELSE "generateImage:done")
    /\ UNCHANGED <<hookVars, turns, now, workspaceMode, profileRole,
                   closureMessages, userMessageData, savedUserMessage,
                   historyForAgent, savedAiMessages, outcome, extractCalls,
                   streamVars, latestProfile, cost, memorySaves>>
    /\ UNCHANGED <<background, settings, chatVars, overlap>>

\* part_001:149-160: generateImage resolved or rejected
AgentImage ==
    /\ turnPc = "Streaming" /\ agentPc = "generateImage"
    /\ \E result \in {"ok", "fallback", "rejected"} :
         /\ IF result = "rejected"
            THEN Fallback("image")
            ELSE /\ Return(WithRaw([Draft(IF result = "fallback"
                                          THEN UserVisibleText(fullText) \o FallbackNote
                                          ELSE UserVisibleText(fullText))
                                      EXCEPT !.image_base64 = "image",
                                             !.imageStatus = "complete"]))
                 /\ failed' = failed
         \* the settled call, with the fallbackOccurred flag it reported
         /\ calls' = Append(calls, IF result = "fallback"
                                   THEN "generateImage:fallback"
                                   ELSE "generateImage:done")
    /\ UNCHANGED <<hookVars, backendVars, turns, now, workspaceMode, profileRole,
                   closureMessages, userMessageData, savedUserMessage,
                   historyForAgent, savedAiMessages, outcome, extractCalls,
                   streamVars, latestProfile, cost, memorySaves>>
    /\ UNCHANGED <<background, settings, chatVars, overlap>>

(* --------------------------- specifications --------------------------- *)

Init ==
    /\ messages = <<>> /\ isLoading = FALSE /\ toasts = <<>>
    /\ db = <<>> /\ credits \in 0..MaxCredits
    /\ turnPc = "Idle" /\ turns = 0 /\ now = 0
    /\ workspaceMode \in {"autonomous", "cocreator"}
    /\ profileRole \in {"user", "admin"}
    /\ closureMessages = <<>>
    /\ userMessageData = NoMessage /\ savedUserMessage = NoMessage
    /\ historyForAgent = <<>> /\ agentMessages = <<>> /\ savedAiMessages = <<>>
    /\ updatedPlan = NoPlan /\ outcome = "none" /\ failed = {} /\ extractCalls = 0
    /\ agentPc = "idle" /\ raw = <<>> /\ pos = 0 /\ fragmentsLeft = 0
    /\ fullText = <<>>
    /\ streamingBuffer = <<>> /\ emitted = <<>>
    /\ latestProfile = [credits |-> 0, membership |-> "none"]
    /\ cost = 0 /\ calls = <<>> /\ memorySaves = 0
    /\ background = NoBackground
    /\ settings = Absent
    /\ activeChat = ChatId /\ fetchMessages = NoFetch
    /\ overlap = NoOverlap

AgentNext ==
    \/ AgentStreamOpen
    \/ AgentStreamReject
    \/ AgentStreamChunk
    \/ AgentStreamEnd
    \/ AgentProfile
    \/ AgentSettings
    \/ AgentDeduct
    \/ AgentImage

Next ==
    \/ SubmitIgnored
    \/ SubmitUnreadable
    \/ Submit
    \/ PersistUserOk
    \/ PersistUserFail
    \/ AgentNext
    \/ OtherAgentResolve
    \/ OtherAgentReject
    \/ PersistAiOk
    \/ PersistAiFail
    \/ PlanOk
    \/ PlanFail

Spec == Init /\ [][Next]_vars

(* The stream specification: one call of runAutonomousAgent, from the moment *)
(* its stream opens, on every response built from at most MaxPieces pieces    *)
(* and under every fragmentation of it.                                        *)

Pieces == { <<"a", " ">>, Sentinel, DocCode }

RECURSIVE PieceTexts(_)
PieceTexts(n) ==
    IF n = 0 THEN {<<>>}
    ELSE LET shorter == PieceTexts(n - 1)
         IN shorter \cup {p \o t : p \in Pieces, t \in shorter}

StreamResponses == PieceTexts(MaxPieces)

InitStream ==
    LET saved == Message(<<"msg", 1>>, "user", <<"h", "i">>)
    IN /\ messages = <<saved, Message(<<"temp-ai", 1>>, "ai", <<>>)>>
       /\ isLoading = TRUE /\ toasts = <<>>
       /\ db = <<saved>> /\ credits = MaxCredits
       /\ turnPc = "Streaming" /\ turns = 1 /\ now = 1
       /\ workspaceMode = "autonomous" /\ profileRole = "user"
       /\ closureMessages = <<>>
       /\ userMessageData = Message(<<"draft", 0>>, "user", <<"h", "i">>)
       /\ savedUserMessage = saved
       /\ historyForAgent = <<saved>> /\ agentMessages = <<>>
       /\ savedAiMessages = <<>>
       /\ updatedPlan = NoPlan /\ outcome = "none" /\ failed = {}
       /\ extractCalls = 0
       /\ agentPc = "streaming" /\ raw \in StreamResponses /\ pos = 0
       /\ fragmentsLeft = 0
       /\ fullText = <<>> /\ streamingBuffer = <<>> /\ emitted = <<>>
       /\ latestProfile = [credits |-> 0, membership |-> "none"]
       /\ cost = 0 /\ calls = <<>> /\ memorySaves = 0
       /\ background = NoBackground
       /\ settings = Absent
       /\ activeChat = ChatId /\ fetchMessages = NoFetch
       /\ overlap = NoOverlap

NextStream ==
    \/ AgentStreamChunk
    \/ AgentStreamEnd
    \/ PersistAiOk
    \/ PersistAiFail

SpecStream == InitStream /\ [][NextStream]_vars

(* The dispatch specification: one call of runAutonomousAgent from the     *)
(* moment its stream opens, on responses that carry every kind of metadata,  *)
(* for both roles and every balance, with the turn's persistence loop and    *)
(* its background promises.                                                  *)

Block(doc) == Sentinel \o doc \o Sentinel

DispatchResponses ==
    { <<"H", "i">>,
      <<" ", "H", "i", "\n">>,
      <<" ">>,
      EventChunk(<<"x">>),
      <<"H", "i">> \o Block(DocEmpty),
      <<"H", "i", " ">> \o Block(DocCode),
      <<"H", "i">> \o Block(DocCodeLang),
      <<"H", "i">> \o Block(DocBlank),
      <<"H", "i">> \o Block(DocBoth),
      <<"H", "i">> \o Block(DocImage),
      <<"H", "i">> \o Block(DocMem),
      <<"H", "i">> \o Block(DocCodeMem),
      <<"H", "i">> \o Block(DocImageMem),
      Block(DocMem) }

InitDispatch ==
    LET saved == Message(<<"msg", 1>>, "user", <<"h", "i">>)
    IN /\ messages = <<saved, Message(<<"temp-ai", 1>>, "ai", <<>>)>>
       /\ isLoading = TRUE /\ toasts = <<>>
       /\ db = <<saved>> /\ credits \in 0..MaxCredits
       /\ turnPc = "Streaming" /\ turns = 1 /\ now = 1
       /\ workspaceMode = "autonomous" /\ profileRole \in {"user", "admin"}
       /\ closureMessages = <<>>
       /\ userMessageData = Message(<<"draft", 0>>, "user", <<"h", "i">>)
       /\ savedUserMessage = saved
       /\ historyForAgent = <<saved>> /\ agentMessages = <<>>
       /\ savedAiMessages = <<>>
       /\ updatedPlan = NoPlan /\ outcome = "none" /\ failed = {}
       /\ extractCalls = 0
       /\ agentPc = "streaming" /\ raw \in DispatchResponses /\ pos = 0
       /\ fragmentsLeft = MaxFragments
       /\ fullText = <<>> /\ streamingBuffer = <<>> /\ emitted = <<>>
       /\ latestProfile = [credits |-> 0, membership |-> "none"]
       /\ cost = 0 /\ calls = <<>> /\ memorySaves = 0
       /\ background = NoBackground
       /\ settings = Absent
       /\ activeChat = ChatId /\ fetchMessages = NoFetch
       /\ overlap = NoOverlap

NextDispatch ==
    \/ AgentStreamReject
    \/ AgentStreamChunk
    \/ AgentStreamEnd
    \/ AgentProfile
    \/ AgentSettings
    \/ AgentDeduct
    \/ AgentImage
    \/ PersistAiOk
    \/ PersistAiFail
    \/ MemorySettle
    \/ ExtractSettle

SpecDispatch == InitDispatch /\ [][NextDispatch]_vars

(* The turn specification: one call of handleSendMessage, from Idle on a  *)
(* view that already shows a persisted exchange, with the background       *)
(* extraction, under the assumption that every awaited call settles.       *)

InitTurn ==
    LET asked == Message(<<"msg", 1>>, "user", <<"h", "i">>)
        answered == Message(<<"msg", 2>>, "ai", <<"H", "i">>)
    IN /\ messages = <<asked, answered>>
       /\ isLoading = FALSE /\ toasts = <<>>
       /\ db = <<asked, answered>> /\ credits \in 0..MaxCredits
       /\ turnPc = "Idle" /\ turns = MaxTurns - 1 /\ now = MaxTurns - 1
       /\ workspaceMode \in {"autonomous", "cocreator"}
       /\ profileRole \in {"user", "admin"}
       /\ closureMessages = <<>>
       /\ userMessageData = NoMessage /\ savedUserMessage = NoMessage
       /\ historyForAgent = <<>> /\ agentMessages = <<>> /\ savedAiMessages = <<>>
       /\ updatedPlan = NoPlan /\ outcome = "none" /\ failed = {} /\ extractCalls = 0
       /\ agentPc = "idle" /\ raw = <<>> /\ pos = 0 /\ fragmentsLeft = 0
       /\ fullText = <<>>
       /\ streamingBuffer = <<>> /\ emitted = <<>>
       /\ latestProfile = [credits |-> 0, membership |-> "none"]
       /\ cost = 0 /\ calls = <<>> /\ memorySaves = 0
       /\ background = NoBackground
       /\ settings = Absent
       /\ activeChat = ChatId /\ fetchMessages = NoFetch
       /\ overlap = NoOverlap

\* the steps that settle a call the turn is awaiting
TurnProgress ==
    \/ PersistUserOk
    \/ PersistUserFail
    \/ AgentNext
    \/ OtherAgentResolve
    \/ OtherAgentReject
    \/ PersistAiOk
    \/ PersistAiFail
    \/ PlanOk
    \/ PlanFail

NextTurn ==
    \/ SubmitIgnored
    \/ SubmitUnreadable
    \/ Submit
    \/ TurnProgress
    \/ ExtractSettle

SpecTurn == InitTurn /\ [][NextTurn]_vars /\ WF_vars(TurnProgress)

(* The conversation specification: one call of handleSendMessage on        *)
(* chat-1 while the user moves between the conversations of the chat list   *)
(* and the history of the selected one is loaded, one load at a time.       *)

\* getMessages(supabase, chatId): the persisted messages of one conversation
GetMessages(chat) == SelectSeq(db, LAMBDA m : m.chat_id = chat)

\* part_000:128-130, 92-96: handleSelectChat sets the active conversation; the
\* effect runs fetchMessages, which sets isLoading and calls getMessages
HandleSelectChat ==
    /\ fetchMessages.pc = "none"
    /\ \E chat \in Chats \ {activeChat} :
         /\ activeChat' = chat
         /\ fetchMessages' = [NoFetch EXCEPT !.pc = "reading", !.chat = chat]
    /\ isLoading' = TRUE
    /\ UNCHANGED <<messages, toasts, backendVars, turnVars, agentVars, background,
                   settings, overlap>>

\* part_000:97: the getMessages query runs at the backend, or fails
GetMessagesRead ==
    /\ fetchMessages.pc = "reading"
    /\ \E ok \in BOOLEAN :
         fetchMessages' =
            [fetchMessages EXCEPT
                !.pc = "settling", !.ok = ok,
                !.history = IF ok THEN GetMessages(fetchMessages.chat) ELSE <<>>]
    /\ UNCHANGED <<hookVars, backendVars, turnVars, agentVars, background, settings,
                   activeChat, overlap>>

\* part_000:97-101: the await returns: setMessages(history), or setMessages([])
\* in the catch; setIsLoading(false) in the finally
GetMessagesSettle ==
    /\ fetchMessages.pc = "settling"
    /\ messages' = IF fetchMessages.ok THEN fetchMessages.history ELSE <<>>
    /\ isLoading' = FALSE
    /\ fetchMessages' = NoFetch
    /\ UNCHANGED <<toasts, backendVars, turnVars, agentVars, background, settings,
                   activeChat, overlap>>

InitChats ==
    LET asked == Message(<<"msg", 1>>, "user", <<"h", "i">>)
        answered == Message(<<"msg", 2>>, "ai", <<"H", "i">>)
        elsewhere == [Message(<<"msg", 3>>, "user", <<"h", "i">>)
                         EXCEPT !.chat_id = "chat-2"]
    IN /\ messages = <<asked, answered>>
       /\ isLoading = FALSE /\ toasts = <<>>
       /\ db = <<asked, answered, elsewhere>> /\ credits \in 0..MaxCredits
       /\ turnPc = "Idle" /\ turns = MaxTurns - 1 /\ now = MaxTurns - 1
       /\ workspaceMode \in {"autonomous", "cocreator"}
       /\ profileRole = "user"
       /\ closureMessages = <<>>
       /\ userMessageData = NoMessage /\ savedUserMessage = NoMessage
       /\ historyForAgent = <<>> /\ agentMessages = <<>> /\ savedAiMessages = <<>>
       /\ updatedPlan = NoPlan /\ outcome = "none" /\ failed = {} /\ extractCalls = 0
       /\ agentPc = "idle" /\ raw = <<>> /\ pos = 0 /\ fragmentsLeft = 0
       /\ fullText = <<>>
       /\ streamingBuffer = <<>> /\ emitted = <<>>
       /\ latestProfile = [credits |-> 0, membership |-> "none"]
       /\ cost = 0 /\ calls = <<>> /\ memorySaves = 0
       /\ background = NoBackground
       /\ settings = Absent
       /\ activeChat = ChatId /\ fetchMessages = NoFetch
       /\ overlap = NoOverlap

NextChats ==
    \/ Submit
    \/ TurnProgress
    \/ HandleSelectChat
    \/ GetMessagesRead
    \/ GetMessagesSettle

SpecChats == InitChats /\ [][NextChats]_vars

(* The overlap specification: the image stages of two calls of             *)
(* runAutonomousAgent for one non-admin user that run at the same time, on  *)
(* the one balance and the one cost table of the backend.                   *)

\* part_001:132-134: the profile fetch of turn t resolved or failed
OverlapProfile ==
    /\ \E t \in ConcurrentTurns, ok \in BOOLEAN :
         /\ overlap.turn[t].pc = "fetchProfile"
         /\ overlap' = [overlap EXCEPT !.turn[t] =
                           IF ok THEN [pc |-> "fetchSettings", credits |-> credits,
                                       cost |-> 0]
                           ELSE [pc |-> "failed", credits |-> 0, cost |-> 0]]
    /\ UNCHANGED <<hookVars, backendVars, turnVars, agentVars, background, settings,
                   chatVars>>

\* part_001:139-145: the app_settings fetch of turn t resolved or failed; the
\* balance read before is compared with the cost
OverlapSettings ==
    /\ \E t \in ConcurrentTurns, ok \in BOOLEAN :
         LET mine == overlap.turn[t]
         IN /\ mine.pc = "fetchSettings"
            /\ overlap' = [overlap EXCEPT !.turn[t] =
                  IF ~ok THEN [mine EXCEPT !.pc = "failed"]
                  ELSE IF mine.credits < CostOf(overlap.entry)
                       THEN [mine EXCEPT !.pc = "notice",
                                         !.cost = CostOf(overlap.entry)]
                       ELSE [mine EXCEPT !.pc = "deduct",
                                         !.cost = CostOf(overlap.entry)]]
    /\ UNCHANGED <<hookVars, backendVars, turnVars, agentVars, background, settings,
                   chatVars>>

\* part_001:146-149: the deduct_credits call of turn t resolved (its error is
\* not read); generateImage is called
OverlapDeduct ==
    /\ \E t \in ConcurrentTurns, ok \in BOOLEAN :
         /\ overlap.turn[t].pc = "deduct"
         /\ credits' = IF ok THEN DeductCredits(credits, overlap.turn[t].cost)
                       ELSE credits
         /\ overlap' = [overlap EXCEPT !.turn[t].pc = "generateImage"]
    /\ UNCHANGED <<hookVars, db, turnVars, agentVars, background, settings, chatVars>>

\* part_001:149-160: generateImage of turn t resolved with an image or rejected
OverlapImage ==
    /\ \E t \in ConcurrentTurns, ok \in BOOLEAN :
         /\ overlap.turn[t].pc = "generateImage"
         /\ overlap' = [overlap EXCEPT !.turn[t].pc = IF ok THEN "image" ELSE "failed"]
    /\ UNCHANGED <<hookVars, backendVars, turnVars, agentVars, background, settings,
                   chatVars>>

InitOverlap ==
    /\ messages = <<>> /\ isLoading = TRUE /\ toasts = <<>>
    /\ db = <<>> /\ credits \in 0..MaxCredits
    /\ turnPc = "Streaming" /\ turns = 0 /\ now = 0
    /\ workspaceMode = "autonomous" /\ profileRole = "user"
    /\ closureMessages = <<>>
    /\ userMessageData = NoMessage /\ savedUserMessage = NoMessage
    /\ historyForAgent = <<>> /\ agentMessages = <<>> /\ savedAiMessages = <<>>
    /\ updatedPlan = NoPlan /\ outcome = "none" /\ failed = {} /\ extractCalls = 0
    /\ agentPc = "idle" /\ raw = <<>> /\ pos = 0 /\ fragmentsLeft = 0
    /\ fullText = <<>>
    /\ streamingBuffer = <<>> /\ emitted = <<>>
    /\ latestProfile = [credits |-> 0, membership |-> "none"]
    /\ cost = 0 /\ calls = <<>> /\ memorySaves = 0
    /\ background = NoBackground
    /\ settings = Absent
    /\ activeChat = ChatId /\ fetchMessages = NoFetch
    /\ \E entry \in {Absent} \cup (0..MaxCredits) :
         overlap = [entry |-> entry, initial |-> credits,
                    turn |-> [t \in ConcurrentTurns |->
                                [pc |-> "fetchProfile", credits |-> 0, cost |-> 0]]]

NextOverlap ==
    \/ OverlapProfile
    \/ OverlapSettings
    \/ OverlapDeduct
    \/ OverlapImage

SpecOverlap == InitOverlap /\ [][NextOverlap]_vars

(* ------------------------------ properties ------------------------------- *)

Ids(view) == {view[i].id : i \in DOMAIN view}

NoDuplicateIds(view) == \A i, j \in DOMAIN view : view[i].id = view[j].id => i = j

\* handleSendMessage has returned from a call that got past its first guards
TurnOver == turnPc = "Idle" /\ outcome \in {"ok", "error"}

\* the stream loop has consumed the whole response
StreamDone == agentPc = "streaming" /\ pos = Len(raw)

ErrorText(error) == <<"An error occurred: ">> \o GetUserFriendlyError(error)

\* the turn ended on the normal path and the view ends with the persisted
\* message that carries text
ShownNormally(text) ==
    /\ outcome = "ok"
    /\ toasts = <<>>
    /\ messages # <<>>
    /\ messages[Len(messages)].text = text
    /\ messages[Len(messages)].sender = "ai"
    /\ messages[Len(messages)] \in {db[i] : i \in DOMAIN db}
    /\ \A i \in DOMAIN messages : ~IsTempId(messages[i].id)

\* the turn ended in Error: a toast, no placeholder of the turn, and no AI
\* message of the turn in the view
EndedInError ==
    /\ outcome = "error"
    /\ toasts # <<>>
    /\ tempUserMessageId \notin Ids(messages)
    /\ tempAiMessageId \notin Ids(messages)
    /\ \A i \in DOMAIN messages :
          messages[i].sender = "ai" => messages[i].id[2] <= Len(db) - Len(savedAiMessages)
                                       \/ IsTempId(messages[i].id)

\* C1: for every response and every split of it into non-empty fragments, the
\* text handed to onStreamChunk during the stream loop, concatenated, equals
\* what is handed over when the response arrives as one fragment.
C1_FragmentationInvariance ==
    StreamDone => emitted = StreamStep(<<>>, <<>>, raw).sent

\* C2: the text emitted to the UI so far (streamingBuffer) is a prefix of the
\* cumulative raw text and never reaches past the start of the first sentinel.
C2_NeverPastSentinel ==
    agentPc = "streaming" =>
        /\ Len(streamingBuffer) <= Len(fullText)
        /\ streamingBuffer = SubSeq(fullText, 1, Len(streamingBuffer))
        /\ IndexOf(fullText, Sentinel) # -1 =>
               Len(streamingBuffer) <= IndexOf(fullText, Sentinel)

\* C3: after handleSendMessage took its error path, whatever stage failed, the
\* view holds no message with the turn's temporary user id or temporary AI id,
\* no two entries with the same id, and only persisted messages.
C3_ErrorPathCleansView ==
    (TurnOver /\ outcome = "error") =>
        /\ tempUserMessageId \notin Ids(messages)
        /\ tempAiMessageId \notin Ids(messages)
        /\ NoDuplicateIds(messages)
        /\ Ids(messages) \subseteq Ids(db)

C3_Witness ==
    /\ TurnOver /\ outcome = "error"
    /\ "persistAi" \in failed
    /\ savedUserMessage.id \in Ids(messages)

\* C4: whenever no call of handleSendMessage is in flight, the view holds no
\* message with a temporary id.
C4_NoOrphanedPlaceholder ==
    turnPc = "Idle" => \A i \in DOMAIN messages : ~IsTempId(messages[i].id)

C4_Witness ==
    /\ turnPc = "Idle" /\ turns >= 2 /\ outcome = "error"
    /\ Len(messages) >= 2

\* the credit check of the turn found the balance lower than the cost
Shortfall ==
    /\ workspaceMode = "autonomous"
    /\ latestProfile.membership = "free"
    /\ cost > 0
    /\ latestProfile.credits < cost

\* C5: in an image turn of a non-privileged user whose freshly fetched balance
\* is lower than the cost, generateImage and deduct_credits are not called, the
\* agent returns exactly one message, the shortfall notice, and the turn ends
\* on the normal path.
C5_ShortfallNotice ==
    Shortfall =>
        LET notice == <<"Oops! You need ", ToString(cost),
                        " credits to generate an image, but you only have ",
                        ToString(latestProfile.credits), ".">>
        IN /\ agentPc = "returned"
           /\ calls = <<>>
           /\ credits = latestProfile.credits
           /\ Len(agentMessages) = 1
           /\ agentMessages[1].text = notice
           /\ agentMessages[1].image_base64 = "none"
           /\ failed \subseteq {"persistAi"}
           /\ (TurnOver /\ "persistAi" \notin failed) => ShownNormally(notice)

C5_Witness ==
    /\ Shortfall /\ TurnOver /\ outcome = "ok"
    /\ cost = 1 /\ latestProfile.credits = 0

\* C6: for a non-privileged user, generateImage is called only after the
\* turn's deduct_credits call was issued and has resolved, never before or
\* while the deduction is pending.
C6_DeductBeforeGenerate ==
    latestProfile.membership = "free" =>
        /\ agentPc = "deduct" => \A i \in DOMAIN calls : calls[i] # "generateImage:call"
        /\ \A i \in DOMAIN calls :
              calls[i] = "generateImage:call" =>
                 \E j, k \in 1..(i - 1) :
                    /\ j < k
                    /\ calls[j] = "deduct_credits:call"
                    /\ calls[k] \in {"deduct_credits:ok", "deduct_credits:error"}

C6_Witness ==
    /\ latestProfile.membership = "free"
    /\ \E i \in DOMAIN calls : calls[i] = "generateImage:call"
    /\ agentPc = "generateImage"

\* the failures runAutonomousAgent's own catch block receives
ImageStageErrors == {"profile", "settings", "image"}

EmptyResponseError == "The AI returned an empty response."

\* the agent returned its fallback message for error, and a turn that then
\* persisted it ended on the normal path showing it
FallbackOutcome(error) ==
    /\ agentPc = "returned" =>
          /\ Len(agentMessages) = 1
          /\ agentMessages[1] = Draft(ErrorText(error))
    /\ (TurnOver /\ "persistAi" \notin failed) => ShownNormally(ErrorText(error))

\* C7 as stated: a rejection of the user-message persistence call, of the
\* model stream or of an AI-message persistence call ends the turn in Error.
C7_RejectionsEndInError ==
    (/\ workspaceMode = "autonomous"
     /\ TurnOver
     /\ failed \cap {"persistUser", "stream", "persistAi"} # {}) => EndedInError

\* C7, amended: a rejected persistence call ends the turn in Error; a rejected
\* model stream is caught inside runAutonomousAgent, which returns one message
\* 'An error occurred: <friendly error>', and the turn persists and shows it
\* on the normal path without a toast.
C7_StreamRejectionIsAnswered ==
    workspaceMode = "autonomous" =>
        /\ (TurnOver /\ failed \cap {"persistUser", "persistAi"} # {}) => EndedInError
        /\ "stream" \in failed => FallbackOutcome("stream")

C7_Witness ==
    /\ TurnOver /\ "stream" \in failed /\ outcome = "ok"
    /\ Len(savedAiMessages) = 1

\* C8 as stated: a failed profile fetch, a failed settings fetch or a failed
\* image generation ends the turn in Error with no AI message persisted.
C8_ImageStageFailuresEndInError ==
    (TurnOver /\ failed \cap ImageStageErrors # {}) =>
        EndedInError /\ savedAiMessages = <<>>

\* C8, amended: a failed profile fetch, settings fetch or image generation is
\* caught inside runAutonomousAgent, which returns one message 'An error
\* occurred: <friendly error>'; the turn persists and shows it on the normal
\* path, and reaches Error only when that persistence call rejects.
C8_ImageStageFailuresAreAnswered ==
    \A error \in ImageStageErrors :
        (workspaceMode = "autonomous" /\ error \in failed) =>
            /\ FallbackOutcome(error)
            /\ (TurnOver /\ "persistAi" \in failed) => EndedInError

C8_Witness ==
    /\ TurnOver /\ outcome = "ok" /\ Len(savedAiMessages) = 1
    /\ "image" \in failed
    /\ "generateImage:call" \in {calls[i] : i \in DOMAIN calls}

\* every character of text is white space
AllWhiteSpace(text) == \A i \in DOMAIN text : text[i] \in WhiteSpace

\* the stream of the turn completed and resolved to no visible text and no
\* code or image action
EmptyResolved ==
    /\ workspaceMode = "autonomous"
    /\ "stream" \notin failed
    /\ agentPc = "returned"
    /\ fullText = raw
    /\ IF IndexOf(raw, Sentinel) = -1
       THEN AllWhiteSpace(raw)
       ELSE /\ AllWhiteSpace(Substring(raw, 0, MetadataMatch(raw).start))
            /\ AllWhiteSpace(SubstringFrom(raw, MetadataMatch(raw).stop))
    /\ ~Truthy(ParsedMetadata(raw).code)
    /\ ~Truthy(ParsedMetadata(raw).imagePrompt)

\* C9 as stated: a response with no visible text and no action ends the turn
\* in Error, with no AI message persisted or shown.
C9_EmptyResponseEndsInError ==
    (TurnOver /\ EmptyResolved) => EndedInError /\ savedAiMessages = <<>>

\* C9, amended: a response with no visible text and no action makes
\* runAutonomousAgent return one message 'An error occurred: <friendly error
\* for "The AI returned an empty response.">'; the turn persists and shows it
\* on the normal path, and reaches Error only when that persistence rejects.
C9_EmptyResponseIsAnswered ==
    EmptyResolved =>
        /\ failed \cap {"persistUser", "agent", "plan"} = {}
        /\ FallbackOutcome(EmptyResponseError)
        /\ (TurnOver /\ "persistAi" \in failed) => EndedInError

C9_Witness ==
    /\ TurnOver /\ EmptyResolved /\ outcome = "ok"
    /\ raw = <<" ">>
    /\ messages[Len(messages)].text = ErrorText(EmptyResponseError)

\* the response carries a metadata block that is not valid JSON next to
\* visible text
MalformedBlock ==
    /\ agentPc = "returned"
    /\ fullText = raw
    /\ MetadataMatch(raw).found
    /\ ~JSONParse(Trim(MetadataMatch(raw).group)).ok
    /\ \E i \in 1..MetadataMatch(raw).start : raw[i] \notin WhiteSpace

\* C10: when the metadata block is not valid JSON and the visible text is
\* non-empty, runAutonomousAgent does not fail, performs no action and returns
\* exactly one plain-text message whose text is the response with the block
\* removed; the turn completes normally.
C10_MalformedBlockDegradesToText ==
    MalformedBlock =>
        LET m == MetadataMatch(raw)
            text == Trim(Substring(raw, 0, m.start) \o SubstringFrom(raw, m.stop))
        IN /\ Len(agentMessages) = 1
           /\ agentMessages[1] = Draft(text)
           /\ memorySaves = 0
           /\ calls = <<>>
           /\ credits = MaxCredits
           /\ failed \subseteq {"persistAi"}
           /\ (TurnOver /\ "persistAi" \notin failed) => ShownNormally(text)

C10_Witness ==
    /\ MalformedBlock /\ TurnOver /\ outcome = "ok"
    /\ raw = <<"a", " ">> \o Sentinel \o <<"a", " ">> \o Sentinel
    /\ messages[Len(messages)].text = <<"a">>

\* the agent consumed a whole response that contains no sentinel and returned
NoSentinelResolved ==
    /\ workspaceMode = "autonomous"
    /\ agentPc = "returned"
    /\ "stream" \notin failed
    /\ fullText = raw
    /\ IndexOf(raw, Sentinel) = -1

\* the one returned message is a plain-text message carrying text
PlainMessage(text) ==
    /\ Len(agentMessages) = 1
    /\ agentMessages[1].sender = "ai"
    /\ agentMessages[1].text = text
    /\ agentMessages[1].code = <<>>
    /\ agentMessages[1].language = <<>>
    /\ agentMessages[1].image_base64 = "none"
    /\ agentMessages[1].imageStatus = "none"

\* no code, image, credit or memory action was performed
NoAction ==
    /\ calls = <<>>
    /\ memorySaves = 0
    /\ latestProfile.membership = "none"
    /\ \A i \in DOMAIN agentMessages : agentMessages[i].imageStatus = "none"

\* C11 as stated: every response without a sentinel yields one plain-text
\* message carrying the trimmed response, and no action.
C11_NoSentinelIsPlainText ==
    NoSentinelResolved => PlainMessage(Trim(raw)) /\ NoAction

\* C11, amended: a response without a sentinel performs no action; when it
\* holds a character that is not white space the turn yields one plain-text
\* message carrying the trimmed response, and when it is all white space the
\* agent returns its 'An error occurred: ...' message for the empty response.
C11_NoSentinelIsPlainTextOrEmpty ==
    NoSentinelResolved =>
        /\ NoAction
        /\ IF AllWhiteSpace(raw)
           THEN PlainMessage(ErrorText(EmptyResponseError))
           ELSE /\ PlainMessage(Trim(raw))
                /\ failed \subseteq {"persistAi"}
                /\ (TurnOver /\ "persistAi" \notin failed) => ShownNormally(Trim(raw))

C11_Witness ==
    /\ NoSentinelResolved /\ TurnOver /\ outcome = "ok"
    /\ raw = <<" ", "H", "i", "\n">>
    /\ messages[Len(messages)].text = <<"H", "i">>

\* the agent consumed a whole response, dispatched on it and returned
Resolved ==
    /\ workspaceMode = "autonomous"
    /\ agentPc = "returned"
    /\ "stream" \notin failed
    /\ fullText = raw

\* the image branch was selected: the generation event was sent to the view
\* and the profile was fetched
ImageBranchTaken ==
    \/ latestProfile.membership # "none"
    \/ "profile" \in failed

\* C12: the agent returns exactly one message, chosen by priority: a non-empty
\* code body yields a code message (visible text, code, language) and then no
\* image is generated and no credit is checked or deducted, even when an image
\* prompt is present; otherwise a non-empty image prompt selects the image
\* branch; otherwise a plain-text message is returned.
C12_DispatchPriority ==
    Resolved =>
        LET payload == ParsedMetadata(raw)
            text == UserVisibleText(raw)
        IN /\ Len(agentMessages) = 1
           /\ IF Truthy(payload.code)
              THEN /\ agentMessages[1].text = text
                   /\ agentMessages[1].code = Trim(payload.code)
                   /\ agentMessages[1].language =
                         (IF payload.language # <<>> THEN payload.language
                          ELSE <<"plaintext">>)
                   /\ agentMessages[1].image_base64 = "none"
                   /\ agentMessages[1].imageStatus = "none"
                   /\ ~ImageBranchTaken
                   /\ calls = <<>>
                   /\ cost = 0
              ELSE IF Truthy(payload.imagePrompt)
              THEN /\ ImageBranchTaken
                   /\ agentMessages[1].code = <<>>
              ELSE /\ ~ImageBranchTaken
                   /\ calls = <<>>
                   /\ PlainMessage(IF text # <<>> THEN text
                                   ELSE ErrorText(EmptyResponseError))

C12_Witness ==
    /\ Resolved /\ TurnOver /\ outcome = "ok"
    /\ raw = <<"H", "i">> \o Block(DocBoth)
    /\ messages[Len(messages)].code = <<"x">>
    /\ messages[Len(messages)].language = <<"plaintext">>

\* the agent consumed a whole response and went past the memory dispatch
PastMemoryDispatch ==
    /\ workspaceMode = "autonomous"
    /\ agentPc \in {"fetchProfile", "fetchSettings", "deduct", "generateImage", "returned"}
    /\ "stream" \notin failed
    /\ fullText = raw

\* one saveMemory call per fact of the payload has been issued
SavesIssuedPerFact ==
    PastMemoryDispatch => memorySaves = Len(ParsedMetadata(raw).memoryToCreate)

\* a step in which the saveMemory batch settles
MemorySettleStep == ~background.memorySettled /\ background'.memorySettled

\* C13: with a non-empty memoryToCreate list, one saveMemory call per fact is
\* issued in every primary branch (code, image, plain text); the calls are not
\* awaited; and their settling, failure included, changes neither the
\* message the agent returns nor the turn's outcome.
C13_MemoryIsFireAndForget ==
    /\ []SavesIssuedPerFact
    /\ [][MemorySettleStep =>
            UNCHANGED <<agentMessages, agentPc, turnPc, outcome, failed,
                        savedAiMessages, messages, toasts, db, credits>>]_vars
    /\ []((TurnOver /\ MemoryWarning \in background.warnings /\ failed = {})
             => outcome = "ok" /\ toasts = <<>>)

C13_Witness ==
    /\ raw = <<"H", "i">> \o Block(DocImageMem)
    /\ memorySaves = 2
    /\ MemoryWarning \in background.warnings
    /\ TurnOver /\ outcome = "ok"
    /\ messages[Len(messages)].image_base64 = "image"

\* a step in which the extractAndSaveMemory promise settles
ExtractSettleStep == ~background.extractSettled /\ background'.extractSettled

\* extractAndSaveMemory has been invoked only with every AI message of the
\* turn persisted
ExtractAfterPersistence ==
    extractCalls > 0 =>
        /\ extractCalls = 1
        /\ savedUserMessage \in {db[i] : i \in DOMAIN db}
        /\ Len(savedAiMessages) > 0
        /\ Len(savedAiMessages) = Len(agentMessages)
        /\ \A i \in DOMAIN savedAiMessages :
              savedAiMessages[i] \in {db[j] : j \in DOMAIN db}
        /\ "persistAi" \notin failed

\* C14: extractAndSaveMemory is invoked only after the turn's AI message(s)
\* have been persisted successfully, it is not awaited by the turn, and its
\* settling, failure included, changes neither the result handleSendMessage
\* returns nor the view.
C14_ExtractionIsFireAndForget ==
    /\ []ExtractAfterPersistence
    /\ [][ExtractSettleStep =>
            UNCHANGED <<messages, toasts, isLoading, turnPc, outcome, agentMessages,
                        savedAiMessages, failed, db>>]_vars
    /\ []((TurnOver /\ ExtractWarning \in background.warnings /\ failed = {})
             => ShownNormally(savedAiMessages[Len(savedAiMessages)].text))

C14_Witness ==
    /\ TurnOver /\ outcome = "ok"
    /\ extractCalls = 1
    /\ ExtractWarning \in background.warnings
    /\ messages[Len(messages)] = savedAiMessages[Len(savedAiMessages)]

\* C15: a rejected updateMessagePlan is only logged: no user-visible notice,
\* no Error, and handleSendMessage returns the agent's result with the view
\* showing the persisted AI message(s).
C15_PlanFailureIsOnlyLogged ==
    (TurnOver /\ "plan" \in failed) => outcome = "ok" /\ toasts = <<>>

\* the stage changes a turn may make; the plan update that follows the view
\* reconciliation belongs to Finalizing, and a result without AI messages is
\* reconciled in the step that receives it
StageChanges ==
    { <<"Idle", "Persisting">>,
      <<"Persisting", "Streaming">>, <<"Persisting", "Idle">>,
      <<"Streaming", "Finalizing">>, <<"Streaming", "PlanPersist">>,
      <<"Streaming", "Idle">>,
      <<"Finalizing", "PlanPersist">>, <<"Finalizing", "Idle">>,
      <<"PlanPersist", "Idle">> }

\* what has happened by each stage of the turn in flight
StageOrder ==
    /\ turnPc = "Persisting" =>
          /\ {tempUserMessageId, tempAiMessageId} \subseteq Ids(messages)
          /\ savedUserMessage = NoMessage /\ agentPc = "idle"
    /\ turnPc = "Streaming" =>
          /\ savedUserMessage \in {db[i] : i \in DOMAIN db}
          /\ savedUserMessage.id \in Ids(messages)
          /\ tempAiMessageId \in Ids(messages)
          /\ agentPc \notin {"idle", "returned"}
          /\ savedAiMessages = <<>>
    /\ turnPc = "Finalizing" =>
          /\ agentPc = "returned"
          /\ Len(savedAiMessages) < Len(agentMessages)
          /\ tempAiMessageId \in Ids(messages)
    /\ (turnPc = "PlanPersist" \/ (TurnOver /\ outcome = "ok")) =>
          /\ agentPc = "returned"
          /\ Len(savedAiMessages) = Len(agentMessages)
          /\ tempAiMessageId \notin Ids(messages)
          /\ \A i \in DOMAIN savedAiMessages : savedAiMessages[i].id \in Ids(messages)

\* C16: a turn passes through Optimistic, Persisting, Streaming, Finalizing in
\* this order; Error is entered only from Persisting, Streaming or Finalizing;
\* and every started turn eventually returns to Idle with the loading flag
\* cleared, provided every awaited call settles.
C16_TurnLifecycle ==
    /\ []StageOrder
    /\ [][turnPc' # turnPc => <<turnPc, turnPc'>> \in StageChanges]_vars
    /\ [][(outcome' = "error" /\ outcome # "error") =>
             turnPc \in {"Persisting", "Streaming", "Finalizing", "PlanPersist"}]_vars
    /\ [](turnPc = "Idle" => ~isLoading)
    /\ (turnPc # "Idle") ~> (turnPc = "Idle" /\ ~isLoading)

C16_Witness ==
    /\ turnPc = "Idle" /\ ~isLoading /\ turns = MaxTurns
    /\ outcome = "error" /\ "persistAi" \in failed
    /\ savedUserMessage.id \in Ids(messages)

\* a step in which addMessage for the user message resolves
UserPersistedStep == savedUserMessage = NoMessage /\ savedUserMessage' # NoMessage

\* C20: when user-message persistence succeeds, the view update replaces the
\* temporary user message by the persisted one at the same index; the view's
\* length, every other message and the AI placeholder are unchanged.
C20_SwapInPlace ==
    [][UserPersistedStep =>
         /\ Len(messages') = Len(messages)
         /\ \E i \in DOMAIN messages :
               /\ messages[i].id = tempUserMessageId
               /\ messages'[i] = savedUserMessage'
               /\ messages'[i].text = messages[i].text
               /\ \A j \in DOMAIN messages : j # i => messages'[j] = messages[j]
         /\ \E k \in DOMAIN messages' : messages'[k].id = tempAiMessageId]_vars

C20_Witness ==
    /\ turnPc = "Streaming"
    /\ Len(messages) = 4
    /\ messages[3] = savedUserMessage
    /\ messages[3].id = <<"msg", 3>>
    /\ messages[4].id = tempAiMessageId

\* generateImage resolved with an image
ImageDelivered ==
    /\ Resolved
    /\ calls # <<>>
    /\ calls[Len(calls)] \in {"generateImage:done", "generateImage:fallback"}
    /\ "image" \notin failed

\* C17: when generateImage reports that the fallback model was used, the
\* returned message's text is the visible text followed by the disclosure
\* note, with the image and status 'complete'; when no fallback occurred the
\* text is exactly the visible text.
C17_FallbackDisclosure ==
    ImageDelivered =>
        /\ Len(agentMessages) = 1
        /\ agentMessages[1].image_base64 = "image"
        /\ agentMessages[1].imageStatus = "complete"
        /\ agentMessages[1].text =
              (IF calls[Len(calls)] = "generateImage:fallback"
               THEN UserVisibleText(raw) \o
                    <<"\n\n*(Note: The premium image model failed, so I used a faster fallback to generate this image.)*">>
               ELSE UserVisibleText(raw))

C17_Witness ==
    /\ ImageDelivered /\ TurnOver /\ outcome = "ok"
    /\ calls[Len(calls)] = "generateImage:fallback"
    /\ Len(messages[Len(messages)].text) = 3
    /\ messages[Len(messages)].imageStatus = "complete"

\* C18: for an admin the image branch performs no cost lookup, no balance
\* comparison and no deduction; the image is generated whatever the balance
\* is, and the balance is left unchanged.
C18_AdminBypassesCredits ==
    latestProfile.membership = "admin" =>
        /\ agentPc \in {"generateImage", "returned"}
        /\ cost = 0
        /\ calls[1] = "generateImage:call"
        /\ \A i \in DOMAIN calls :
              calls[i] \notin {"deduct_credits:call", "deduct_credits:ok",
                               "deduct_credits:error"}
        /\ credits = latestProfile.credits
        /\ "settings" \notin failed
        /\ \A i \in DOMAIN agentMessages :
              agentMessages[i].text # ShortfallNotice(1, latestProfile.credits)

C18_Witness ==
    /\ latestProfile.membership = "admin"
    /\ credits = 0
    /\ ImageDelivered /\ TurnOver /\ outcome = "ok"
    /\ messages[Len(messages)].image_base64 = "image"

\* C19: raw_ai_response is attached to a returned message only when the
\* requester's role is admin; for any other requester no message returned by
\* any branch, persisted or shown, carries it.
C19_RawOnlyForAdminRole ==
    /\ \A i \in DOMAIN agentMessages :
          agentMessages[i].raw_ai_response # <<>> =>
             profileRole = "admin" /\ agentMessages[i].raw_ai_response = raw
    /\ profileRole # "admin" =>
          /\ \A i \in DOMAIN db : db[i].raw_ai_response = <<>>
          /\ \A i \in DOMAIN messages : messages[i].raw_ai_response = <<>>

C19_Witness ==
    /\ profileRole = "user"
    /\ latestProfile.membership = "admin"
    /\ ImageDelivered /\ TurnOver /\ outcome = "ok"
    /\ messages[Len(messages)].raw_ai_response = <<>>

\* the AI placeholder of the turn in flight, in a view that shows it
Placeholder(view) == view[CHOOSE i \in DOMAIN view : view[i].id = tempAiMessageId]

HasPlaceholder(view) == \E i \in DOMAIN view : view[i].id = tempAiMessageId

\* chunk is the JSON text of an object whose type is 'image_generation_start'
IsStartEvent(chunk) ==
    /\ Len(chunk) >= Len(EventOpen) + Len(EventClose)
    /\ SubSeq(chunk, 1, Len(EventOpen)) = EventOpen
    /\ SubSeq(chunk, Len(chunk) - Len(EventClose) + 1, Len(chunk)) = EventClose

\* the view before and after onStreamChunk(chunk): a start event replaces the
\* placeholder's text by the event's text and marks it 'generating', any
\* other chunk is appended to the placeholder's text; nothing else changes
HandledAsEventOrText(before, after, chunk) ==
    /\ Len(after) = Len(before)
    /\ \A i \in DOMAIN before :
          IF before[i].id # tempAiMessageId THEN after[i] = before[i]
          ELSE IF IsStartEvent(chunk)
          THEN after[i] = [before[i] EXCEPT
                  !.text = SubSeq(chunk, Len(EventOpen) + 1,
                                  Len(chunk) - Len(EventClose)),
                  !.imageStatus = "generating"]
          ELSE after[i] = [before[i] EXCEPT !.text = before[i].text \o chunk]

Deducted == \E i \in DOMAIN calls : calls[i] = "deduct_credits:ok"

\* C22: once credits were deducted for a turn, a later failure of image
\* generation leaves the balance reduced by the cost: no compensating credit
\* is issued on any path, and nothing else in the turn changes the balance.
C22_NoRefund ==
    /\ [](Deducted => credits = latestProfile.credits - cost)
    /\ [](~Deducted /\ latestProfile.membership # "none"
             => credits = latestProfile.credits)
    /\ [][credits' # credits =>
             /\ agentPc = "deduct" /\ agentPc' = "generateImage"
             /\ credits' = credits - cost]_vars

C22_Witness ==
    /\ Deducted /\ "image" \in failed
    /\ TurnOver
    /\ cost = 1 /\ latestProfile.credits = 1 /\ credits = 0

\* C28: for a non-admin, generateImage is called only when the turn's
\* deduct_credits call succeeded; when the call reports an error, no image is
\* generated for that turn.
C28_GenerateOnlyAfterSuccessfulDeduct ==
    latestProfile.membership = "free" =>
        \A i \in DOMAIN calls :
            calls[i] = "generateImage:call" =>
               \E j \in 1..(i - 1) : calls[j] = "deduct_credits:ok"

\* C26: the text of every message the agent returns never contains the
\* sentinel token, for every response, including one with a single unclosed
\* sentinel, one with text after the closing sentinel, and one with more than
\* two sentinels.
C26_NoSentinelInReturnedText ==
    agentPc = "returned" =>
        \A i \in DOMAIN agentMessages :
            IndexOf(agentMessages[i].text, Sentinel) = -1

\* C27: in a turn that ends with a plain-text or code message, the text the
\* AI placeholder accumulated from the streamed chunks equals, after trimming,
\* the text of the message that replaces it, for every response and every
\* fragmentation.
C27_StreamedTextIsStoredText ==
    (/\ turnPc = "Finalizing" /\ agentPc = "returned"
     /\ failed = {} /\ calls = <<>>
     /\ HasPlaceholder(messages)) =>
        Trim(Placeholder(messages).text) = agentMessages[1].text

\* runAutonomousAgent has been called for the turn in flight
AutonomousAgentCalled ==
    /\ workspaceMode = "autonomous"
    /\ turnPc = "Streaming"
    /\ agentPc \notin {"idle", "other"}

\* C24: the new user message appears exactly once in the content sent to the
\* model: the content is the prior messages followed by one entry for the new
\* user message, and no placeholder of the turn is part of it.
C24_UserMessageSentOnce ==
    AutonomousAgentCalled =>
        Contents(historyForAgent, userMessageData.text) =
            GeminiHistory(closureMessages) \o
                <<[role |-> "user", text |-> userMessageData.text]>>

\* the cost table has been read and the balance check passed
CostCompared ==
    /\ latestProfile.membership = "free"
    /\ agentPc \in {"deduct", "generateImage"}

\* C23: the cost compared with the balance and deducted is the cost-table
\* entry whenever the table has one, an entry of 0 included, and 1 only when
\* the table has no entry.
C23_CostIsTableEntry ==
    CostCompared => cost = (IF settings = Absent THEN 1 ELSE settings)

\* no turn and no history load is in flight
ViewAtRest == turnPc = "Idle" /\ fetchMessages.pc = "none"

\* C25: every message in the view belongs to the active conversation, and the
\* view never shows a turn's AI message without that turn's user message,
\* when the conversation changed or its history load completed during the
\* turn; stated for the view at rest, after the turn and the load are over.
C25_ViewBelongsToActiveChat ==
    ViewAtRest =>
        /\ \A i \in DOMAIN messages : messages[i].chat_id = activeChat
        /\ (\E i \in DOMAIN messages, j \in DOMAIN savedAiMessages :
                messages[i].id = savedAiMessages[j].id)
            => \E i \in DOMAIN messages : messages[i].id = savedUserMessage.id

\* the turns running at the same time whose generateImage call gave an image
ImagesGenerated == {t \in ConcurrentTurns : overlap.turn[t].pc = "image"}

\* C29: two turns of one non-admin user run at the same time: the images
\* generated never exceed what the initial balance pays for (and every
\* deduction is applied to a balance that covers it).
C29_ImagesWithinInitialBalance ==
    Cardinality(ImagesGenerated) * CostOf(overlap.entry) <= overlap.initial

====
